---- MODULE Spec2Model ----
(***************************************************************************)
(* Model of the inference-scheduling and resilience layer of yolo-go      *)
(* (src/yolo/video_optimization.go): the VideoOptimization worker pool,   *)
(* its asynchronous task queue and result channel, the circuit breaker,   *)
(* the token-bucket rate limiter, the resource check and Close.           *)
(*                                                                         *)
(* Time is counted in ticks of 1/TicksPerSec second.  Memory is counted   *)
(* in GiB.  The error returned by extremePreprocessImage is an input of   *)
(* the worker (the worker's code branches on err == nil).                 *)
(***************************************************************************)
EXTENDS Integers, Sequences, FiniteSets, TLC

\* ------------------------------------------------------------ bounds
NumWorkers == 2
QueueCap == 1
MaxTasks == 3
MaxTime == 2
TicksPerSec == 2
MaxBucket == 2
LimiterMaxTime == 4
NmsGrid == 2
NmsMaxScore == 2
NmsMaxLen == 3
ThrDen == 4
GeoMaxSrc == 3
GeoMaxModel == 2
DecClasses == 4
DecMaxBoxes == 2
HealthMaxCores == 5
HealthMaxCount == 7
IntBits == 8
TokMaxChecks == 3

Workers == 1..NumWorkers
TaskIds == 1..MaxTasks

\* ------------------------------------------------------------ state
VARIABLES
  now,              \* time.Now(), in ticks
  circuitBreaker,   \* [state, failureCount, lastFailTime, nextRetryTime, maxFailures, retryTimeout]
  rateLimiter,      \* [tokens, maxTokens, refillRate, lastRefill]
  resourceMonitor,  \* [maxMemory, maxGoroutines]
  metrics,          \* [totalRequests, successRequests, failedRequests]
  asyncQueue,       \* chan *ProcessTask: sequence of task ids
  processDone,      \* chan *ProcessResult: sequence of [id, err]
  workerPool,       \* chan struct{}: number of permits in the channel
  isShutdown,       \* atomic flag
  ctxDone,          \* vo.ctx cancelled
  asyncClosed,      \* asyncQueue closed
  doneClosed,       \* processDone closed
  wpc, wtask, werr, \* per worker: position in asyncWorker, task held, error held
  wread,            \* per worker: the reading its resourceCheck took for the task held
  spc, sid, serr,   \* the AsyncDetectImage caller: position, id being submitted, error held
  nextId,           \* next task id the caller will submit
  cpc, ci,          \* Close: position, permits taken so far
  panicked,         \* a goroutine panicked: the process is gone
  wtrial,           \* history: worker passed the breaker while it was not Closed
  inlined,          \* history: ids AsyncDetectImage processed inline
  delivered,        \* history: per id, results placed on processDone
  observed,         \* history: per id, results returned by GetAsyncResult*
  rlLog,            \* history: the rateLimiterAllow calls, [t, ok] each, since the bucket was set full
  nms,              \* a nonMaxSuppression call: [detections, iouThreshold, keep, pc]
  detect,           \* a detectImage call: its image size, config, output tensor and return values
  health,           \* healthChecker [isHealthy, failureCount, maxFailures] and what the last tick read
  batch             \* a BatchDetectImages call: its goroutines, results, firstError and return values

vars == <<now, circuitBreaker, rateLimiter, resourceMonitor, metrics,
          asyncQueue, processDone, workerPool, isShutdown, ctxDone,
          asyncClosed, doneClosed, wpc, wtask, werr, wread, spc, sid, serr, nextId,
          cpc, ci, panicked, wtrial, inlined, delivered, observed, rlLog, nms, detect, health, batch>>

\* State of the calls of functions that stand outside the pipeline.
pureVars == <<nms, detect, health, batch>>

NmsIdle == nms = [pc |-> "none"]
DetectIdle == detect = [pc |-> "none"]
HealthIdle == health = [pc |-> "none"]
BatchIdle == batch = [pc |-> "none"]

\* No such call is in progress.
NoCalls ==
  /\ NmsIdle
  /\ DetectIdle
  /\ HealthIdle
  /\ BatchIdle

\* ------------------------------------------------------------ configuration
\* Settings in force when the first frame arrives: the constructor's values
\* scaled down, as installed by SetCircuitBreakerSettings, SetRateLimitSettings
\* and AdjustPerformanceSettings right after construction.
CfgMaxFailures == 3
CfgRetryTimeout == 1
CfgMaxTokens == 2
CfgRefillRate == 1
CfgMaxMemory == 2

Min(a, b) == IF a < b THEN a ELSE b

\* int64 arithmetic wraps around; the model keeps IntBits bits of it.
MaxInt == 2 ^ (IntBits - 1) - 1

WrapInt(x) == ((x + 2 ^ (IntBits - 1)) % (2 ^ IntBits)) - 2 ^ (IntBits - 1)

\* ------------------------------------------------------------ circuit breaker
circuitBreakerAllow(cb, t) ==
  CASE cb.state = "Closed" -> TRUE
    [] cb.state = "Open" -> t > cb.nextRetryTime
    [] cb.state = "HalfOpen" -> TRUE
    [] OTHER -> FALSE

\* circuitBreakerRecord clearing failureCount on every success, whatever
\* the state.
circuitBreakerRecord_ResetOnSuccess(cb, success, t) ==
  IF success
    THEN IF cb.state = "HalfOpen"
           THEN [cb EXCEPT !.state = "Closed", !.failureCount = 0]
           ELSE [cb EXCEPT !.failureCount = 0]
    ELSE LET c1 == [cb EXCEPT !.failureCount = @ + 1, !.lastFailTime = t]
         IN IF c1.failureCount >= c1.maxFailures
              THEN [c1 EXCEPT !.state = "Open",
                              !.nextRetryTime = t + c1.retryTimeout]
              ELSE c1

\* circuitBreakerRecord taking one failure off the count on a success
\* recorded while Closed.
circuitBreakerRecord_Forgive(cb, success, t) ==
  IF success
    THEN IF cb.state = "HalfOpen"
           THEN [cb EXCEPT !.state = "Closed", !.failureCount = 0]
           ELSE IF cb.state = "Closed" /\ cb.failureCount > 0
                  THEN [cb EXCEPT !.failureCount = @ - 1]
                  ELSE cb
    ELSE LET c1 == [cb EXCEPT !.failureCount = @ + 1, !.lastFailTime = t]
         IN IF c1.failureCount >= c1.maxFailures
              THEN [c1 EXCEPT !.state = "Open",
                              !.nextRetryTime = t + c1.retryTimeout]
              ELSE c1

\* circuitBreakerRecord opening one failure late (> for >=).
circuitBreakerRecord_LateTrip(cb, success, t) ==
  IF success
    THEN IF cb.state = "HalfOpen"
           THEN [cb EXCEPT !.state = "Closed", !.failureCount = 0]
           ELSE cb
    ELSE LET c1 == [cb EXCEPT !.failureCount = @ + 1, !.lastFailTime = t]
         IN IF c1.failureCount > c1.maxFailures
              THEN [c1 EXCEPT !.state = "Open",
                              !.nextRetryTime = t + c1.retryTimeout]
              ELSE c1

circuitBreakerRecord(cb, success, t) ==
  IF success
    THEN IF cb.state = "HalfOpen"
           THEN [cb EXCEPT !.state = "Closed", !.failureCount = 0]
           ELSE cb
    ELSE LET c1 == [cb EXCEPT !.failureCount = @ + 1, !.lastFailTime = t]
         IN IF c1.failureCount >= c1.maxFailures
              THEN [c1 EXCEPT !.state = "Open",
                              !.nextRetryTime = t + c1.retryTimeout]
              ELSE c1

\* ------------------------------------------------------------ rate limiter
\* rateLimiterRefill without the cap at maxTokens.
rateLimiterRefill_NoCap(rl, t) ==
  LET elapsed == t - rl.lastRefill
      tokensToAdd == WrapInt((elapsed \div TicksPerSec) * rl.refillRate)
  IN IF elapsed > 0
       THEN [rl EXCEPT !.tokens = WrapInt(rl.tokens + tokensToAdd),
                       !.lastRefill = t]
       ELSE rl

\* The refill step of rateLimiterAllow: int64(elapsed.Seconds()) truncates the
\* elapsed time to whole seconds; the product and the sum are int64 ones.
rateLimiterRefill(rl, t) ==
  LET elapsed == t - rl.lastRefill
      tokensToAdd == WrapInt((elapsed \div TicksPerSec) * rl.refillRate)
  IN IF elapsed > 0
       THEN [rl EXCEPT !.tokens = Min(rl.maxTokens, WrapInt(rl.tokens + tokensToAdd)),
                       !.lastRefill = t]
       ELSE rl

\* rateLimiterAllow: the limiter after the call and the value returned.
rateLimiterAllow(rl, t) ==
  LET r == rateLimiterRefill(rl, t)
  IN IF r.tokens > 0
       THEN [rl |-> [r EXCEPT !.tokens = @ - 1], ok |-> TRUE]
       ELSE [rl |-> r, ok |-> FALSE]

\* ------------------------------------------------------------ resource check
\* resourceCheck without the memory comparison.
resourceCheck_NoMemory(rm, lv) ==
  IF lv.goroutines > rm.maxGoroutines THEN FALSE ELSE TRUE

resourceCheck(rm, lv) ==
  IF lv.alloc > rm.maxMemory THEN FALSE
  ELSE IF lv.goroutines > rm.maxGoroutines THEN FALSE
  ELSE TRUE

\* ------------------------------------------------------------ metrics
updateMetrics(m, success) ==
  IF success
    THEN [m EXCEPT !.totalRequests = @ + 1, !.successRequests = @ + 1]
    ELSE [m EXCEPT !.totalRequests = @ + 1, !.failedRequests = @ + 1]

\* ------------------------------------------------------------ initial state
\* Readings of runtime.ReadMemStats / runtime.NumGoroutine that a resourceCheck
\* call can take: within both limits, memory above its limit, goroutines above
\* their limit.
NoReading == [alloc |-> 0, goroutines |-> 0]

LiveReadings ==
  { [alloc |-> CfgMaxMemory, goroutines |-> 2 * NumWorkers],
    [alloc |-> CfgMaxMemory + 1, goroutines |-> 2 * NumWorkers],
    [alloc |-> CfgMaxMemory, goroutines |-> 2 * NumWorkers + 1] }

\* The circuit breaker as built, with maxFailures m.
InitBreaker(m) ==
  circuitBreaker = [state |-> "Closed", failureCount |-> 0, lastFailTime |-> 0,
                    nextRetryTime |-> 0, maxFailures |-> m,
                    retryTimeout |-> CfgRetryTimeout]

\* The state NewVideoOptimizationWithCUDA leaves, the breaker apart.
InitVORest ==
  /\ now = 0
  /\ rateLimiter = [tokens |-> CfgMaxTokens, maxTokens |-> CfgMaxTokens,
                    refillRate |-> CfgRefillRate, lastRefill |-> 0]
  /\ resourceMonitor = [maxMemory |-> CfgMaxMemory, maxGoroutines |-> 2 * NumWorkers]
  /\ metrics = [totalRequests |-> 0, successRequests |-> 0, failedRequests |-> 0]
  /\ asyncQueue = <<>>
  /\ processDone = <<>>
  /\ workerPool = NumWorkers
  /\ isShutdown = FALSE
  /\ ctxDone = FALSE
  /\ asyncClosed = FALSE
  /\ doneClosed = FALSE
  /\ wpc = [w \in Workers |-> "select"]
  /\ wtask = [w \in Workers |-> 0]
  /\ werr = [w \in Workers |-> "nil"]
  /\ wread = [w \in Workers |-> NoReading]
  /\ spc = "idle"
  /\ sid = 0
  /\ serr = "nil"
  /\ nextId = 1
  /\ cpc = "idle"
  /\ ci = 0
  /\ panicked = FALSE
  /\ wtrial = [w \in Workers |-> FALSE]
  /\ inlined = {}
  /\ delivered = [i \in TaskIds |-> 0]
  /\ observed = [i \in TaskIds |-> 0]
  /\ rlLog = <<>>

\* The state NewVideoOptimizationWithCUDA leaves.
InitVO ==
  /\ InitBreaker(CfgMaxFailures)
  /\ InitVORest

Init == InitVO /\ NoCalls

\* ------------------------------------------------------------ frames
gateVars == <<circuitBreaker, rateLimiter, resourceMonitor, metrics>>
chanVars == <<asyncQueue, processDone, workerPool, asyncClosed, doneClosed>>
submitVars == <<spc, sid, serr, nextId>>
closeVars == <<isShutdown, ctxDone, cpc, ci>>
workerVars == <<wpc, wtask, werr, wread>>
histVars == <<wtrial, inlined, delivered, observed>>

\* The history of a send of result r that reached processDone.
Deliver(r) ==
  IF r.id \in TaskIds THEN [delivered EXCEPT ![r.id] = @ + 1] ELSE delivered

\* ------------------------------------------------------------ environment
Tick ==
  /\ ~panicked
  /\ now < MaxTime
  /\ now' = now + 1
  /\ UNCHANGED <<gateVars, chanVars, submitVars, closeVars, workerVars, histVars,
                 rlLog, panicked>>
  /\ UNCHANGED pureVars

\* ------------------------------------------------------------ asyncWorker
\* select: case task := <-vo.asyncQueue (a closed, empty queue yields nil)
WRecv(w) ==
  /\ ~panicked
  /\ wpc[w] = "select"
  /\ \/ asyncQueue # <<>>
     \/ asyncClosed
  /\ IF asyncQueue # <<>>
       THEN /\ wtask' = [wtask EXCEPT ![w] = Head(asyncQueue)]
            /\ asyncQueue' = Tail(asyncQueue)
       ELSE /\ wtask' = [wtask EXCEPT ![w] = 0]
            /\ asyncQueue' = asyncQueue
  /\ wpc' = [wpc EXCEPT ![w] = "shutdownChk"]
  /\ UNCHANGED <<gateVars, processDone, workerPool, asyncClosed, doneClosed,
                 submitVars, closeVars, werr, wread, histVars, now, rlLog, panicked>>
  /\ UNCHANGED pureVars

\* select: case <-vo.ctx.Done(): return
WCtxDone(w) ==
  /\ ~panicked
  /\ wpc[w] = "select"
  /\ ctxDone
  /\ wpc' = [wpc EXCEPT ![w] = "exited"]
  /\ UNCHANGED <<gateVars, chanVars, submitVars, closeVars, wtask, wread, werr, histVars,
                 now, rlLog, panicked>>
  /\ UNCHANGED pureVars

\* A worker that goes on to the gates without looking at the shutdown flag.
WShutdownChk_Ignore(w) ==
  /\ ~panicked
  /\ wpc[w] = "shutdownChk"
  /\ wpc' = [wpc EXCEPT ![w] = "cb"]
  /\ UNCHANGED <<gateVars, chanVars, submitVars, closeVars, wtask, wread, werr, histVars,
                 now, rlLog, panicked>>
  /\ UNCHANGED pureVars

\* if atomic.LoadInt64(&vo.isShutdown) == 1 { return }
WShutdownChk(w) ==
  /\ ~panicked
  /\ wpc[w] = "shutdownChk"
  /\ wpc' = [wpc EXCEPT ![w] = IF isShutdown THEN "exited" ELSE "cb"]
  /\ UNCHANGED <<gateVars, chanVars, submitVars, closeVars, wtask, wread, werr, histVars,
                 now, rlLog, panicked>>
  /\ UNCHANGED pureVars

\* A breaker gate that counts its own rejection as a failure.
WBreaker_CountsRejection(w) ==
  /\ ~panicked
  /\ wpc[w] = "cb"
  /\ IF circuitBreakerAllow(circuitBreaker, now)
       THEN /\ wpc' = [wpc EXCEPT ![w] = "rl"]
            /\ werr' = werr
            /\ wtrial' = [wtrial EXCEPT ![w] = (circuitBreaker.state # "Closed")]
            /\ circuitBreaker' = circuitBreaker
       ELSE /\ wpc' = [wpc EXCEPT ![w] = "rejSend"]
            /\ werr' = [werr EXCEPT ![w] = "circuit breaker open"]
            /\ wtrial' = wtrial
            /\ circuitBreaker' = circuitBreakerRecord(circuitBreaker, FALSE, now)
  /\ UNCHANGED <<rateLimiter, resourceMonitor, metrics, chanVars, submitVars, closeVars,
                 wtask, wread, inlined, delivered, observed, now, rlLog, panicked>>
  /\ UNCHANGED pureVars

\* if !vo.circuitBreakerAllow() { ... "circuit breaker open" ... continue }
WBreaker(w) ==
  /\ ~panicked
  /\ wpc[w] = "cb"
  /\ IF circuitBreakerAllow(circuitBreaker, now)
       THEN /\ wpc' = [wpc EXCEPT ![w] = "rl"]
            /\ werr' = werr
            /\ wtrial' = [wtrial EXCEPT ![w] = (circuitBreaker.state # "Closed")]
       ELSE /\ wpc' = [wpc EXCEPT ![w] = "rejSend"]
            /\ werr' = [werr EXCEPT ![w] = "circuit breaker open"]
            /\ wtrial' = wtrial
  /\ UNCHANGED <<gateVars, chanVars, submitVars, closeVars, wtask, wread, inlined,
                 delivered, observed, now, rlLog, panicked>>
  /\ UNCHANGED pureVars

\* if !vo.rateLimiterAllow() { ... "rate limit exceeded" ... continue }
WLimiter(w) ==
  /\ ~panicked
  /\ wpc[w] = "rl"
  /\ LET r == rateLimiterAllow(rateLimiter, now)
     IN /\ rateLimiter' = r.rl
        /\ IF r.ok
             THEN /\ wpc' = [wpc EXCEPT ![w] = "res"]
                  /\ werr' = werr
                  /\ wtrial' = wtrial
             ELSE /\ wpc' = [wpc EXCEPT ![w] = "rejSend"]
                  /\ werr' = [werr EXCEPT ![w] = "rate limit exceeded"]
                  /\ wtrial' = [wtrial EXCEPT ![w] = FALSE]
  /\ UNCHANGED <<circuitBreaker, resourceMonitor, metrics, chanVars, submitVars,
                 closeVars, wtask, wread, inlined, delivered, observed, now, rlLog, panicked>>
  /\ UNCHANGED pureVars

\* if !vo.resourceCheck() { ... "resource limit exceeded" ... continue }
WResource(w) ==
  /\ ~panicked
  /\ wpc[w] = "res"
  /\ \E lv \in LiveReadings :
       /\ wread' = [wread EXCEPT ![w] = lv]
       /\ IF resourceCheck(resourceMonitor, lv)
            THEN /\ wpc' = [wpc EXCEPT ![w] = "acquire"]
                 /\ werr' = werr
                 /\ wtrial' = wtrial
            ELSE /\ wpc' = [wpc EXCEPT ![w] = "rejSend"]
                 /\ werr' = [werr EXCEPT ![w] = "resource limit exceeded"]
                 /\ wtrial' = [wtrial EXCEPT ![w] = FALSE]
  /\ UNCHANGED <<gateVars, chanVars, submitVars, closeVars, wtask, inlined,
                 delivered, observed, now, rlLog, panicked>>
  /\ UNCHANGED pureVars

\* vo.processDone <- &ProcessResult{nil, err, task.id}; continue   (blocking send)
WRejSend(w) ==
  /\ ~panicked
  /\ wpc[w] = "rejSend"
  /\ \/ doneClosed
     \/ Len(processDone) < QueueCap
  /\ IF doneClosed
       THEN /\ panicked' = TRUE
            /\ UNCHANGED <<processDone, workerVars, delivered>>
       ELSE LET r == [id |-> wtask[w], err |-> werr[w]]
            IN /\ processDone' = Append(processDone, r)
               /\ delivered' = Deliver(r)
               /\ wpc' = [wpc EXCEPT ![w] = "select"]
               /\ wtask' = [wtask EXCEPT ![w] = 0]
               /\ werr' = [werr EXCEPT ![w] = "nil"]
               /\ wread' = [wread EXCEPT ![w] = NoReading]
               /\ panicked' = panicked
  /\ UNCHANGED <<gateVars, asyncQueue, workerPool, asyncClosed, doneClosed,
                 submitVars, closeVars, wtrial, inlined, observed, now, rlLog>>
  /\ UNCHANGED pureVars

\* <-vo.workerPool
WAcquire(w) ==
  /\ ~panicked
  /\ wpc[w] = "acquire"
  /\ workerPool > 0
  /\ workerPool' = workerPool - 1
  /\ wpc' = [wpc EXCEPT ![w] = "proc"]
  /\ UNCHANGED <<gateVars, asyncQueue, processDone, asyncClosed, doneClosed,
                 submitVars, closeVars, wtask, wread, werr, histVars, now, rlLog, panicked>>
  /\ UNCHANGED pureVars

\* data, err := vo.extremePreprocessImage(...); vo.updateMetrics(latency, err == nil)
WProcess(w) ==
  /\ ~panicked
  /\ wpc[w] = "proc"
  /\ \E e \in {"nil", "preprocess failed"} :
        /\ werr' = [werr EXCEPT ![w] = e]
        /\ metrics' = updateMetrics(metrics, e = "nil")
  /\ wpc' = [wpc EXCEPT ![w] = "record"]
  /\ UNCHANGED <<circuitBreaker, rateLimiter, resourceMonitor, chanVars, submitVars,
                 closeVars, wtask, wread, histVars, now, rlLog, panicked>>
  /\ UNCHANGED pureVars

\* vo.circuitBreakerRecord(err == nil)
WRecord(w) ==
  /\ ~panicked
  /\ wpc[w] = "record"
  /\ circuitBreaker' = circuitBreakerRecord(circuitBreaker, werr[w] = "nil", now)
  /\ wpc' = [wpc EXCEPT ![w] = "release"]
  /\ wtrial' = [wtrial EXCEPT ![w] = FALSE]
  /\ UNCHANGED <<rateLimiter, resourceMonitor, metrics, chanVars, submitVars,
                 closeVars, wtask, wread, werr, inlined, delivered, observed, now, rlLog,
                 panicked>>
  /\ UNCHANGED pureVars

\* A worker going on to deliver its result without returning its permit.
WRelease_Skip(w) ==
  /\ ~panicked
  /\ wpc[w] = "release"
  /\ wpc' = [wpc EXCEPT ![w] = "send"]
  /\ UNCHANGED <<gateVars, chanVars, submitVars, closeVars, wtask, wread, werr,
                 histVars, now, rlLog, panicked>>
  /\ UNCHANGED pureVars

\* vo.workerPool <- struct{}{}
WRelease(w) ==
  /\ ~panicked
  /\ wpc[w] = "release"
  /\ workerPool < NumWorkers
  /\ workerPool' = workerPool + 1
  /\ wpc' = [wpc EXCEPT ![w] = "send"]
  /\ UNCHANGED <<gateVars, asyncQueue, processDone, asyncClosed, doneClosed,
                 submitVars, closeVars, wtask, wread, werr, histVars, now, rlLog, panicked>>
  /\ UNCHANGED pureVars

\* select { case vo.processDone <- result: default: }   (non-blocking send)
WSend(w) ==
  /\ ~panicked
  /\ wpc[w] = "send"
  /\ IF doneClosed
       THEN /\ panicked' = TRUE
            /\ UNCHANGED <<processDone, workerVars, delivered>>
       ELSE LET r == [id |-> wtask[w], err |-> werr[w]]
                room == Len(processDone) < QueueCap
            IN /\ processDone' = IF room THEN Append(processDone, r) ELSE processDone
               /\ delivered' = IF room THEN Deliver(r) ELSE delivered
               /\ wpc' = [wpc EXCEPT ![w] = "select"]
               /\ wtask' = [wtask EXCEPT ![w] = 0]
               /\ werr' = [werr EXCEPT ![w] = "nil"]
               /\ wread' = [wread EXCEPT ![w] = NoReading]
               /\ panicked' = panicked
  /\ UNCHANGED <<gateVars, asyncQueue, workerPool, asyncClosed, doneClosed,
                 submitVars, closeVars, wtrial, inlined, observed, now, rlLog>>
  /\ UNCHANGED pureVars

\* ------------------------------------------------------------ AsyncDetectImage
\* select { case vo.asyncQueue <- task: default: (inline) }
Submit ==
  /\ ~panicked
  /\ spc = "idle"
  /\ nextId <= MaxTasks
  /\ nextId' = nextId + 1
  /\ IF asyncClosed
       THEN /\ panicked' = TRUE
            /\ UNCHANGED <<asyncQueue, spc, sid, inlined>>
       ELSE IF Len(asyncQueue) < QueueCap
         THEN /\ asyncQueue' = Append(asyncQueue, nextId)
              /\ UNCHANGED <<spc, sid, panicked, inlined>>
         ELSE /\ spc' = "inline"
              /\ sid' = nextId
              /\ inlined' = inlined \cup {nextId}
              /\ UNCHANGED <<asyncQueue, panicked>>
  /\ UNCHANGED <<gateVars, processDone, workerPool, asyncClosed, doneClosed,
                 serr, closeVars, workerVars, wtrial, delivered, observed, now, rlLog>>
  /\ UNCHANGED pureVars

\* default: data, err := vo.extremePreprocessImage(img, inputWidth, inputHeight)
InlineProcess ==
  /\ ~panicked
  /\ spc = "inline"
  /\ \E e \in {"nil", "preprocess failed"} : serr' = e
  /\ spc' = "inlineSend"
  /\ UNCHANGED <<gateVars, chanVars, sid, nextId, closeVars, workerVars, histVars,
                 now, rlLog, panicked>>
  /\ UNCHANGED pureVars

\* The inline result sent like a worker's: dropped when processDone is full.
InlineSend_Drop ==
  /\ ~panicked
  /\ spc = "inlineSend"
  /\ ~doneClosed
  /\ LET r == [id |-> sid, err |-> serr]
         room == Len(processDone) < QueueCap
     IN /\ processDone' = IF room THEN Append(processDone, r) ELSE processDone
        /\ delivered' = IF room THEN Deliver(r) ELSE delivered
  /\ spc' = "idle"
  /\ sid' = 0
  /\ serr' = "nil"
  /\ UNCHANGED <<gateVars, asyncQueue, workerPool, asyncClosed, doneClosed,
                 nextId, closeVars, workerVars, wtrial, inlined, observed, now, rlLog,
                 panicked>>
  /\ UNCHANGED pureVars

\* vo.processDone <- &ProcessResult{data, err, id}   (blocking send)
InlineSend ==
  /\ ~panicked
  /\ spc = "inlineSend"
  /\ \/ doneClosed
     \/ Len(processDone) < QueueCap
  /\ IF doneClosed
       THEN /\ panicked' = TRUE
            /\ UNCHANGED <<processDone, spc, sid, serr, delivered>>
       ELSE LET r == [id |-> sid, err |-> serr]
            IN /\ processDone' = Append(processDone, r)
               /\ delivered' = Deliver(r)
               /\ spc' = "idle"
               /\ sid' = 0
               /\ serr' = "nil"
               /\ panicked' = panicked
  /\ UNCHANGED <<gateVars, asyncQueue, workerPool, asyncClosed, doneClosed,
                 nextId, closeVars, workerVars, wtrial, inlined, observed, now, rlLog>>
  /\ UNCHANGED pureVars

\* ------------------------------------------------------------ result consumer
\* select { case result := <-vo.processDone: return result; default: return nil }
GetAsyncResult ==
  /\ ~panicked
  /\ processDone # <<>>
  /\ processDone' = Tail(processDone)
  /\ observed' = [observed EXCEPT ![Head(processDone).id] = @ + 1]
  /\ UNCHANGED <<gateVars, asyncQueue, workerPool, asyncClosed, doneClosed,
                 submitVars, closeVars, workerVars, wtrial, inlined, delivered,
                 now, rlLog, panicked>>
  /\ UNCHANGED pureVars

\* ------------------------------------------------------------ Close
\* atomic.StoreInt64(&vo.isShutdown, 1)
CloseStore ==
  /\ ~panicked
  /\ cpc = "idle"
  /\ isShutdown' = TRUE
  /\ cpc' = "cancel"
  /\ UNCHANGED <<gateVars, chanVars, submitVars, ctxDone, ci, workerVars, histVars,
                 now, rlLog, panicked>>
  /\ UNCHANGED pureVars

\* vo.cancel()
CloseCancel ==
  /\ ~panicked
  /\ cpc = "cancel"
  /\ ctxDone' = TRUE
  /\ cpc' = "closeQueue"
  /\ UNCHANGED <<gateVars, chanVars, submitVars, isShutdown, ci, workerVars, histVars,
                 now, rlLog, panicked>>
  /\ UNCHANGED pureVars

\* time.Sleep(100 * time.Millisecond); close(vo.asyncQueue)
CloseQueue ==
  /\ ~panicked
  /\ cpc = "closeQueue"
  /\ asyncClosed' = TRUE
  /\ cpc' = "permits"
  /\ UNCHANGED <<gateVars, asyncQueue, processDone, workerPool, doneClosed,
                 submitVars, isShutdown, ctxDone, ci, workerVars, histVars, now, rlLog,
                 panicked>>
  /\ UNCHANGED pureVars

\* for i := 0; i < vo.parallelWorkers; i++ { <-vo.workerPool }
ClosePermit ==
  /\ ~panicked
  /\ cpc = "permits"
  /\ workerPool > 0
  /\ workerPool' = workerPool - 1
  /\ ci' = ci + 1
  /\ cpc' = IF ci + 1 >= NumWorkers THEN "drain" ELSE "permits"
  /\ UNCHANGED <<gateVars, asyncQueue, processDone, asyncClosed, doneClosed,
                 submitVars, isShutdown, ctxDone, workerVars, histVars, now, rlLog,
                 panicked>>
  /\ UNCHANGED pureVars

\* for { select { case <-vo.processDone: default: close(vo.processDone); return } }
CloseDrain ==
  /\ ~panicked
  /\ cpc = "drain"
  /\ IF processDone # <<>>
       THEN /\ processDone' = Tail(processDone)
            /\ UNCHANGED <<doneClosed, cpc>>
       ELSE /\ doneClosed' = TRUE
            /\ cpc' = "done"
            /\ UNCHANGED processDone
  /\ UNCHANGED <<gateVars, asyncQueue, workerPool, asyncClosed, submitVars,
                 isShutdown, ctxDone, ci, workerVars, histVars, now, rlLog, panicked>>
  /\ UNCHANGED pureVars

\* ------------------------------------------------------------ operator calls
\* SetCircuitBreakerSettings(maxFailures, timeout, retryTimeout); the timeout
\* field is never read by the program
SetCircuitBreakerSettings(maxFailures, retryTimeout) ==
  /\ ~panicked
  /\ circuitBreaker' = [circuitBreaker EXCEPT !.maxFailures = maxFailures,
                                              !.retryTimeout = retryTimeout]
  /\ UNCHANGED <<rateLimiter, resourceMonitor, metrics, chanVars, submitVars,
                 closeVars, workerVars, histVars, now, rlLog, panicked>>
  /\ UNCHANGED pureVars

\* ResetStabilityMetrics closing the breaker without clearing failureCount.
ResetStabilityMetrics_KeepCount ==
  /\ ~panicked
  /\ circuitBreaker' = [circuitBreaker EXCEPT !.state = "Closed"]
  /\ metrics' = [totalRequests |-> 0, successRequests |-> 0, failedRequests |-> 0]
  /\ UNCHANGED <<rateLimiter, resourceMonitor, chanVars, submitVars,
                 closeVars, workerVars, histVars, now, rlLog, panicked>>
  /\ UNCHANGED pureVars

\* ResetStabilityMetrics(): breaker closed, counters zeroed (the health
\* checker it also resets is the state of the health-check specification)
ResetStabilityMetrics ==
  /\ ~panicked
  /\ circuitBreaker' = [circuitBreaker EXCEPT !.state = "Closed", !.failureCount = 0]
  /\ metrics' = [totalRequests |-> 0, successRequests |-> 0, failedRequests |-> 0]
  /\ UNCHANGED <<rateLimiter, resourceMonitor, chanVars, submitVars,
                 closeVars, workerVars, histVars, now, rlLog, panicked>>
  /\ UNCHANGED pureVars

\* ------------------------------------------------------------ specification
Next ==
  \/ Tick
  \/ \E w \in Workers : WRecv(w)
  \/ \E w \in Workers : WShutdownChk(w)
  \/ \E w \in Workers : WBreaker(w)
  \/ \E w \in Workers : WLimiter(w)
  \/ \E w \in Workers : WResource(w)
  \/ \E w \in Workers : WRejSend(w)
  \/ \E w \in Workers : WAcquire(w)
  \/ \E w \in Workers : WProcess(w)
  \/ \E w \in Workers : WRecord(w)
  \/ \E w \in Workers : WRelease(w)
  \/ \E w \in Workers : WSend(w)
  \/ Submit
  \/ InlineProcess
  \/ InlineSend
  \/ GetAsyncResult
  \/ \E m \in 1..CfgMaxFailures : SetCircuitBreakerSettings(m, CfgRetryTimeout)

\* The running pipeline: workers, the AsyncDetectImage caller, the result
\* consumer, the clock and SetCircuitBreakerSettings calls, before Close or
\* ResetStabilityMetrics is called.
Spec == Init /\ [][Next]_vars

\* The pipeline with ResetStabilityMetrics calls.
NextReset ==
  \/ Next
  \/ ResetStabilityMetrics

SpecReset == Init /\ [][NextReset]_vars

\* The pipeline with ResetStabilityMetrics calls and maxFailures fixed, at
\* any value from 1 up, from construction on.
InitFixed ==
  /\ \E m \in 1..CfgMaxFailures : InitBreaker(m)
  /\ InitVORest
  /\ NoCalls

NextFixed ==
  \/ Tick
  \/ \E w \in Workers : WRecv(w)
  \/ \E w \in Workers : WShutdownChk(w)
  \/ \E w \in Workers : WBreaker(w)
  \/ \E w \in Workers : WLimiter(w)
  \/ \E w \in Workers : WResource(w)
  \/ \E w \in Workers : WRejSend(w)
  \/ \E w \in Workers : WAcquire(w)
  \/ \E w \in Workers : WProcess(w)
  \/ \E w \in Workers : WRecord(w)
  \/ \E w \in Workers : WRelease(w)
  \/ \E w \in Workers : WSend(w)
  \/ Submit
  \/ InlineProcess
  \/ InlineSend
  \/ GetAsyncResult
  \/ ResetStabilityMetrics

SpecFixed == InitFixed /\ [][NextFixed]_vars

\* The pipeline with a Close call in progress.  Close reads no clock and no
\* breaker setting, so the clock stands still and the settings stay as built.
NextClose ==
  \/ \E w \in Workers : WRecv(w)
  \/ \E w \in Workers : WShutdownChk(w)
  \/ \E w \in Workers : WBreaker(w)
  \/ \E w \in Workers : WLimiter(w)
  \/ \E w \in Workers : WResource(w)
  \/ \E w \in Workers : WRejSend(w)
  \/ \E w \in Workers : WAcquire(w)
  \/ \E w \in Workers : WProcess(w)
  \/ \E w \in Workers : WRecord(w)
  \/ \E w \in Workers : WRelease(w)
  \/ \E w \in Workers : WSend(w)
  \/ Submit
  \/ InlineProcess
  \/ InlineSend
  \/ GetAsyncResult
  \/ \E w \in Workers : WCtxDone(w)
  \/ CloseStore
  \/ CloseCancel
  \/ CloseQueue
  \/ ClosePermit
  \/ CloseDrain

SpecClose == Init /\ [][NextClose]_vars

\* The same, with every worker that holds a permit scheduled: its
\* preprocessing call returns, it records the outcome, it sends its permit
\* back when the pool has room.
SpecCloseLive ==
  /\ Init
  /\ [][NextClose]_vars
  /\ \A w \in Workers : /\ WF_vars(WProcess(w))
                        /\ WF_vars(WRecord(w))
                        /\ WF_vars(WRelease(w))

\* ------------------------------------------------------------ rate limiter alone
\* The token bucket driven by every sequence of rateLimiterAllow calls (the call
\* asyncWorker makes for each task), clock ticks and SetRateLimitSettings calls.
LimiterConfigs ==
  { c \in (1..MaxBucket) \X (1..MaxBucket) : c[2] <= c[1] } \cup { <<10, 5>> }

\* Calls logged per configuration: a full burst, the rejected call, one refill.
MaxChecks(rl) == rl.maxTokens + rl.refillRate + 2

InitLimiter ==
  /\ now = 0
  /\ circuitBreaker = [state |-> "Closed", failureCount |-> 0, lastFailTime |-> 0,
                       nextRetryTime |-> 0, maxFailures |-> CfgMaxFailures,
                       retryTimeout |-> CfgRetryTimeout]
  /\ \E c \in LimiterConfigs :
       rateLimiter = [tokens |-> c[1], maxTokens |-> c[1],
                      refillRate |-> c[2], lastRefill |-> 0]
  /\ resourceMonitor = [maxMemory |-> CfgMaxMemory, maxGoroutines |-> 2 * NumWorkers]
  /\ metrics = [totalRequests |-> 0, successRequests |-> 0, failedRequests |-> 0]
  /\ asyncQueue = <<>>
  /\ processDone = <<>>
  /\ workerPool = NumWorkers
  /\ isShutdown = FALSE
  /\ ctxDone = FALSE
  /\ asyncClosed = FALSE
  /\ doneClosed = FALSE
  /\ wpc = [w \in Workers |-> "select"]
  /\ wtask = [w \in Workers |-> 0]
  /\ werr = [w \in Workers |-> "nil"]
  /\ wread = [w \in Workers |-> NoReading]
  /\ spc = "idle"
  /\ sid = 0
  /\ serr = "nil"
  /\ nextId = 1
  /\ cpc = "idle"
  /\ ci = 0
  /\ panicked = FALSE
  /\ wtrial = [w \in Workers |-> FALSE]
  /\ inlined = {}
  /\ delivered = [i \in TaskIds |-> 0]
  /\ observed = [i \in TaskIds |-> 0]
  /\ rlLog = <<>>
  /\ NoCalls

restVars == <<circuitBreaker, resourceMonitor, metrics, chanVars, submitVars,
              closeVars, workerVars, histVars, panicked>>

LimiterTick ==
  /\ now < LimiterMaxTime
  /\ now' = now + 1
  /\ UNCHANGED <<rateLimiter, rlLog, restVars>>
  /\ UNCHANGED pureVars

\* vo.rateLimiterAllow()
LimiterCheck ==
  /\ Len(rlLog) < MaxChecks(rateLimiter)
  /\ LET r == rateLimiterAllow(rateLimiter, now)
     IN /\ rateLimiter' = r.rl
        /\ rlLog' = Append(rlLog, [t |-> now, ok |-> r.ok])
  /\ UNCHANGED <<now, restVars>>
  /\ UNCHANGED pureVars

\* SetRateLimitSettings(maxTokens, refillRate): the bucket is set full at once
SetRateLimitSettings(maxTokens, refillRate) ==
  /\ rateLimiter' = [rateLimiter EXCEPT !.maxTokens = maxTokens,
                                        !.refillRate = refillRate,
                                        !.tokens = maxTokens]
  /\ rlLog' = <<>>
  /\ UNCHANGED <<now, restVars>>
  /\ UNCHANGED pureVars

NextLimiter ==
  \/ LimiterTick
  \/ LimiterCheck
  \/ \E c \in LimiterConfigs : SetRateLimitSettings(c[1], c[2])

SpecLimiter == InitLimiter /\ [][NextLimiter]_vars

\* ------------------------------------------------------------ token bounds
\* The token bucket under every setting SetRateLimitSettings accepts, from
\* empty to the largest int64.
TokenSettings == {0, 1, 2, MaxInt} \X {0, 1, 2, MaxInt}

InitTokens ==
  /\ InitVO
  /\ NoCalls

\* vo.rateLimiterAllow(), the last TokMaxChecks calls logged
TokensCheck ==
  /\ Len(rlLog) < TokMaxChecks
  /\ LET r == rateLimiterAllow(rateLimiter, now)
     IN /\ rateLimiter' = r.rl
        /\ rlLog' = Append(rlLog, [t |-> now, ok |-> r.ok])
  /\ UNCHANGED <<now, restVars>>
  /\ UNCHANGED pureVars

NextTokens ==
  \/ LimiterTick
  \/ TokensCheck
  \/ \E c \in TokenSettings : SetRateLimitSettings(c[1], c[2])

SpecTokens == InitTokens /\ [][NextTokens]_vars

\* ============================================================ claims
Exceeds(rm, lv) == lv.alloc > rm.maxMemory \/ lv.goroutines > rm.maxGoroutines

\* Worker w takes its circuit-breaker check in this step.
BreakerStep(w) == wpc[w] = "cb" /\ wpc'[w] # "cb"

\* Worker w records the outcome of its task in this step.
RecordStep(w) == wpc[w] = "record" /\ wpc'[w] = "release"

Trials == {w \in Workers : wtrial[w]}

InChannel(i) == Cardinality({k \in 1..Len(processDone) : processDone[k].id = i})

\* C1: the failure record that brings failureCount up to maxFailures leaves the
\* breaker Open with nextRetryTime = time of that failure + retryTimeout, and a
\* worker whose breaker check is made while the breaker is Open and before
\* nextRetryTime goes to emit "circuit breaker open" instead of processing.
C1_BreakerTrips ==
  [][ /\ ( /\ circuitBreaker'.failureCount = circuitBreaker.failureCount + 1
           /\ circuitBreaker'.failureCount >= circuitBreaker.maxFailures )
         => /\ circuitBreaker'.state = "Open"
            /\ circuitBreaker'.lastFailTime = now
            /\ circuitBreaker'.nextRetryTime = now + circuitBreaker.retryTimeout
      /\ \A w \in Workers :
           ( /\ BreakerStep(w)
             /\ circuitBreaker.state = "Open"
             /\ now < circuitBreaker.nextRetryTime )
           => /\ wpc'[w] = "rejSend"
              /\ werr'[w] = "circuit breaker open"
    ]_vars

\* C1 witness: two failures tripped a breaker with maxFailures = 2 and a worker
\* is about to emit "circuit breaker open" before nextRetryTime.
C1_Witness ==
  \E w \in Workers :
    /\ wpc[w] = "rejSend"
    /\ werr[w] = "circuit breaker open"
    /\ circuitBreaker.state = "Open"
    /\ circuitBreaker.maxFailures = 2
    /\ circuitBreaker.failureCount = 2
    /\ now < circuitBreaker.nextRetryTime

\* C2 (as claimed): a breaker check made while the breaker is Open and after
\* nextRetryTime is admitted and moves the breaker to HalfOpen.
C2_HalfOpenOnRetry ==
  [][ \A w \in Workers :
        ( /\ BreakerStep(w)
          /\ circuitBreaker.state = "Open"
          /\ now > circuitBreaker.nextRetryTime )
        => /\ wpc'[w] = "rl"
           /\ circuitBreaker'.state = "HalfOpen"
    ]_vars

\* C3 (as claimed): when the only trial in flight is recorded as a success the
\* breaker is Closed with failureCount = 0.
C3_TrialSuccessCloses ==
  [][ \A w \in Workers :
        ( /\ RecordStep(w)
          /\ Trials = {w}
          /\ circuitBreaker.state = "Open"
          /\ werr[w] = "nil" )
        => /\ circuitBreaker'.state = "Closed"
           /\ circuitBreaker'.failureCount = 0
    ]_vars

\* C4 (as claimed): when a trial admitted after nextRetryTime is recorded as a
\* failure while the breaker is Open, the breaker is Open with nextRetryTime =
\* time of that failure + retryTimeout.
C4_TrialFailureReopens ==
  [][ \A w \in Workers :
        ( /\ RecordStep(w)
          /\ wtrial[w]
          /\ circuitBreaker.state = "Open"
          /\ werr[w] # "nil" )
        => /\ circuitBreaker'.state = "Open"
           /\ circuitBreaker'.nextRetryTime = now + circuitBreaker'.retryTimeout
    ]_vars

\* C5 (as claimed): at most one task admitted by a breaker that is not Closed
\* is in flight before its outcome is recorded.
C5_SingleTrial == Cardinality(Trials) <= 1

\* C8: a worker whose resourceCheck read memory above maxMemory or goroutines
\* above maxGoroutines holds a "resource limit exceeded" rejection, whatever the
\* breaker state and token count, and a rejected task is dropped after its
\* result is sent: the worker never goes on to preprocess it.
C8_ResourceVeto ==
  /\ [](\A w \in Workers :
          Exceeds(resourceMonitor, wread[w])
          => /\ wpc[w] = "rejSend"
             /\ werr[w] = "resource limit exceeded")
  /\ [][ \A w \in Workers :
           wpc[w] = "rejSend"
           => \/ wpc'[w] = "rejSend" /\ wtask'[w] = wtask[w] /\ werr'[w] = werr[w]
              \/ wpc'[w] = "select" /\ wtask'[w] = 0 /\ asyncQueue' = asyncQueue
       ]_vars

\* C8 witness: a memory veto taken while the breaker is Open and a token is left.
C8_Witness ==
  \E w \in Workers :
    /\ wpc[w] = "rejSend"
    /\ werr[w] = "resource limit exceeded"
    /\ wread[w].alloc > resourceMonitor.maxMemory
    /\ circuitBreaker.state = "Open"
    /\ rateLimiter.tokens > 0

\* C9 (as claimed): AsyncDetectImage is never blocked: when it is about to
\* send its inline result, processDone has room.
C9_SubmitNeverBlocks ==
  spc = "inlineSend" => Len(processDone) < QueueCap

\* C10: while the pipeline runs, a task that fell back to inline processing is
\* never handled by a worker, has no result before AsyncDetectImage returns
\* and exactly one result afterwards, which is in processDone or was returned
\* once by GetAsyncResult.
C10_InlineExactlyOnce ==
  \A i \in inlined :
    /\ \A w \in Workers : wtask[w] # i
    /\ \A k \in 1..Len(asyncQueue) : asyncQueue[k] # i
    /\ delivered[i] = IF sid = i THEN 0 ELSE 1
    /\ InChannel(i) + observed[i] = delivered[i]

\* C10 witness: the result of an inline task was returned by GetAsyncResult.
C10_Witness ==
  \E i \in inlined : observed[i] = 1 /\ InChannel(i) = 0 /\ sid # i

\* ------------------------------------------------------------ limiter claims
SameInstant(L, n) == \A i \in 1..n : L[i].t = L[1].t

\* C6: from a full bucket of M tokens, of the checks made at one instant the
\* first M are admitted and the (M+1)-th is rejected; when the next check
\* comes at least one second later, it and the checks after it, R in all, are
\* admitted.
C6_BurstAndRefill ==
  LET M == rateLimiter.maxTokens
      R == rateLimiter.refillRate
      L == rlLog
      n == Len(rlLog)
  IN /\ \A i \in 1..n :
          (i <= M + 1 /\ SameInstant(L, i)) => (L[i].ok <=> i <= M)
     /\ ( /\ n >= M + 2
          /\ SameInstant(L, M + 1)
          /\ L[M + 2].t >= L[1].t + TicksPerSec )
        => \A i \in (M + 2)..Min(n, M + 1 + R) : L[i].ok

\* C6 witness: the test case, 10 admitted, the 11th rejected, one second
\* without a check, 5 more admitted.
C6_Witness ==
  /\ rateLimiter.maxTokens = 10
  /\ rateLimiter.refillRate = 5
  /\ Len(rlLog) = 16
  /\ SameInstant(rlLog, 11)
  /\ rlLog[12].t = rlLog[1].t + TicksPerSec
  /\ rlLog[16].ok

\* C7 (as claimed): no elapsed time goes uncredited: with refillRate >= 1, a
\* check made a full second or more after a rejected check, with no check
\* admitted in between, is admitted.
C7_NoTimeUncredited ==
  rateLimiter.refillRate >= 1 =>
    \A i \in 1..Len(rlLog) : \A j \in 1..Len(rlLog) :
      ( /\ i < j
        /\ rlLog[j].t >= rlLog[i].t + TicksPerSec
        /\ \A k \in i..(j - 1) : ~rlLog[k].ok )
      => rlLog[j].ok

\* ------------------------------------------------------------ delivery claims
\* Worker w is stopped in a send on processDone: the channel is full and open.
BlockedOnDelivery(w) ==
  /\ wpc[w] = "rejSend"
  /\ Len(processDone) >= QueueCap
  /\ ~doneClosed

\* C11 (as claimed): no worker is ever stopped in a send on the result channel:
\* a result that finds processDone full is dropped and the worker goes on.
C11_WorkersNeverBlockOnDelivery ==
  \A w \in Workers : ~BlockedOnDelivery(w)

\* ------------------------------------------------------------ shutdown claims
\* C12 (as claimed): asyncQueue is closed only once every worker has exited.
C12_QueueClosedAfterWorkersExit ==
  asyncClosed => \A w \in Workers : wpc[w] = "exited"

\* ============================================================ nonMaxSuppression
\* A float32 box [x1, y1, x2, y2] is held as <<x1, y1, x2, y2, dx, dy>> with
\* integer entries: its corners are (x1/dx, y1/dy) and (x2/dx, y2/dy), and the
\* boxes of one call share dx and dy.  Areas are then integers counted in
\* 1/(dx*dy) square pixels and an IoU is exact: [n, d, u] stands for
\* n / (d + u * 1e-6); a threshold is tn / ThrDen.
IouEpsInv == 1000000

Max(a, b) == IF a > b THEN a ELSE b

\* iou(box1, box2) = interArea / (area1 + area2 - interArea + 1e-6)
iou(box1, box2) ==
  LET interXMin == Max(box1[1], box2[1])
      interYMin == Max(box1[2], box2[2])
      interXMax == Min(box1[3], box2[3])
      interYMax == Min(box1[4], box2[4])
      interArea == Max(0, interXMax - interXMin) * Max(0, interYMax - interYMin)
      area1 == (box1[3] - box1[1]) * (box1[4] - box1[2])
      area2 == (box2[3] - box2[1]) * (box2[4] - box2[2])
  IN [n |-> interArea, d |-> area1 + area2 - interArea, u |-> box1[5] * box1[6]]

\* q > tn / ThrDen for the IoU q = n / (d + u * 1e-6), all in area units:
\* n * ThrDen * IouEpsInv > tn * (d * IouEpsInv + u), with the integer
\* n * ThrDen - tn * d kept apart so that no product leaves 32 bits.
IouAbove(q, tn) == q.n * ThrDen - tn * q.d > (tn * q.u) \div IouEpsInv

\* sort.Slice by descending Score is not stable: every ordering of the input
\* that is descending by Score is a possible outcome.
SortedByScore(detections) ==
  LET n == Len(detections)
      perms == { f \in [1..n -> 1..n] : \A a, b \in 1..n : a # b => f[a] # f[b] }
  IN { [k \in 1..n |-> detections[f[k]]] : f \in
         { g \in perms : \A k \in 1..(n - 1) :
                            detections[g[k]].Score >= detections[g[k + 1]].Score } }

\* The loop with only the latest kept detection compared.
RECURSIVE nmsLoop_LastOnly(_, _, _, _)
nmsLoop_LastOnly(sorted, i, keep, tn) ==
  IF i > Len(sorted) THEN keep
  ELSE LET current == sorted[i]
           keepCurrent ==
             keep = <<>> \/ ~IouAbove(iou(current.Box, keep[Len(keep)].Box), tn)
       IN nmsLoop_LastOnly(sorted, i + 1,
                           IF keepCurrent THEN Append(keep, current) ELSE keep, tn)

\* for i := 0; i < len(detections); i++ { ... if keepCurrent { keep = append(keep, current) } }
RECURSIVE nmsLoop(_, _, _, _)
nmsLoop(sorted, i, keep, tn) ==
  IF i > Len(sorted) THEN keep
  ELSE LET current == sorted[i]
           keepCurrent ==
             \A j \in 1..Len(keep) : ~IouAbove(iou(current.Box, keep[j].Box), tn)
       IN nmsLoop(sorted, i + 1,
                  IF keepCurrent THEN Append(keep, current) ELSE keep, tn)

\* nonMaxSuppression(detections, iouThreshold): the set of lists it can return
nonMaxSuppression(detections, tn) ==
  IF Len(detections) = 0 THEN { detections }
  ELSE { nmsLoop(sorted, 1, <<>>, tn) : sorted \in SortedByScore(detections) }

NmsBoxes ==
  { <<b[1], b[2], b[3], b[4], 1, 1>> :
      b \in { c \in (0..NmsGrid) \X (0..NmsGrid) \X (0..NmsGrid) \X (0..NmsGrid) :
                c[1] < c[3] /\ c[2] < c[4] } }

NmsDetections == [Box : NmsBoxes, Score : 1..NmsMaxScore]

NmsInputs ==
  UNION { [1..n -> NmsDetections] : n \in 0..NmsMaxLen }

InitNms ==
  /\ InitVO
  /\ DetectIdle
  /\ HealthIdle
  /\ BatchIdle
  /\ \E ds \in NmsInputs : \E tn \in 0..ThrDen :
       nms = [pc |-> "call", detections |-> ds, iouThreshold |-> tn, keep |-> <<>>]

pipelineVars == <<now, gateVars, chanVars, submitVars, closeVars, workerVars,
                  histVars, rlLog, panicked>>

NmsCall ==
  /\ nms.pc = "call"
  /\ \E k \in nonMaxSuppression(nms.detections, nms.iouThreshold) :
       nms' = [nms EXCEPT !.keep = k, !.pc = "done"]
  /\ UNCHANGED <<pipelineVars, detect, health, batch>>

NextNms == NmsCall

SpecNms == InitNms /\ [][NextNms]_vars

\* C13: in a list returned by nonMaxSuppression no two detections have an IoU
\* above the threshold of the call.
C13_NmsSeparation ==
  nms.pc = "done" =>
    \A i, j \in 1..Len(nms.keep) :
      i # j => ~IouAbove(iou(nms.keep[i].Box, nms.keep[j].Box), nms.iouThreshold)

\* C13 witness: a call that kept two detections and suppressed a third one.
C13_Witness ==
  /\ nms.pc = "done"
  /\ Len(nms.detections) = 3
  /\ Len(nms.keep) = 2
  /\ nms.iouThreshold > 0

\* ============================================================ detectImage
\* Tensor coordinates (cx, cy, w, h) are held in half pixels and scores in
\* tenths; the corners parseDetections computes are then quarter pixels.
DefaultConfThreshold == 4
DefaultIouThreshold == ThrDen \div 2

\* DefaultDetectionOptions()
DefaultDetectionOptions ==
  [ConfThreshold |-> DefaultConfThreshold, IOUThreshold |-> DefaultIouThreshold]

\* preprocessImageFromMemory: the size of the image handed to the model
preprocessSize(config) ==
  IF config.InputWidth > 0 /\ config.InputHeight > 0
    THEN <<config.InputWidth, config.InputHeight>>
    ELSE <<config.InputSize, config.InputSize>>

\* outputData[0*numFeatures*numDetections + f*numDetections + i]
TensorAt(outputData, numDetections, f, i) == outputData[f * numDetections + i + 1]

\* The class search taking a later class on equal scores (>= for >).
RECURSIVE bestClass_LastOnTies(_, _, _, _, _, _)
bestClass_LastOnTies(outputData, numDetections, numClasses, i, classIdx, best) ==
  IF classIdx >= numClasses THEN best
  ELSE LET score == TensorAt(outputData, numDetections, 4 + classIdx, i)
       IN bestClass_LastOnTies(outputData, numDetections, numClasses, i, classIdx + 1,
                               IF score >= best.Score
                                 THEN [Score |-> score, ClassID |-> classIdx]
                                 ELSE best)

\* for classIdx := 0; classIdx < numClasses; classIdx++ { if score > bestScore ... }
RECURSIVE bestClass(_, _, _, _, _, _)
bestClass(outputData, numDetections, numClasses, i, classIdx, best) ==
  IF classIdx >= numClasses THEN best
  ELSE LET score == TensorAt(outputData, numDetections, 4 + classIdx, i)
       IN bestClass(outputData, numDetections, numClasses, i, classIdx + 1,
                    IF score > best.Score
                      THEN [Score |-> score, ClassID |-> classIdx]
                      ELSE best)

\* for i := 0; i < numDetections; i++ { ... detections = append(detections, ...) }
RECURSIVE parseLoop(_, _, _, _, _, _)
parseLoop(outputData, numDetections, numClasses, confThreshold, i, detections) ==
  IF i >= numDetections THEN detections
  ELSE LET cx == TensorAt(outputData, numDetections, 0, i)
           cy == TensorAt(outputData, numDetections, 1, i)
           w == TensorAt(outputData, numDetections, 2, i)
           h == TensorAt(outputData, numDetections, 3, i)
           best == bestClass(outputData, numDetections, numClasses, i, 0,
                             [Score |-> 0, ClassID |-> 0])
           d == [Box |-> <<2 * cx - w, 2 * cy - h, 2 * cx + w, 2 * cy + h, 4, 4>>,
                 Score |-> best.Score, ClassID |-> best.ClassID]
       IN parseLoop(outputData, numDetections, numClasses, confThreshold, i + 1,
                    IF best.Score < confThreshold THEN detections
                                                  ELSE Append(detections, d))

\* parseDetections(outputData, outputShape) []Detection: its only return value
\* is the slice, nil (here <<>>) for a shape it does not support and nil as
\* well when no box reaches the confidence threshold.
parseDetections(outputData, outputShape, confThreshold) ==
  IF Len(outputShape) # 3 THEN <<>>
  ELSE IF outputShape[1] # 1 THEN <<>>
  ELSE LET numDetections == outputShape[3]
           numFeatures == outputShape[2]
           numClasses == numFeatures - 4
       IN IF numClasses <= 0 THEN <<>>
          ELSE parseLoop(outputData, numDetections, numClasses, confThreshold, 0, <<>>)

RECURSIVE GCD(_, _)
GCD(a, b) == IF b = 0 THEN a ELSE GCD(b, a % b)

\* The box with x scaled by sx[1]/sx[2] and y by sy[1]/sy[2], fractions in
\* lowest terms.
ScaleBox(box, sx, sy) ==
  <<box[1] * sx[1], box[2] * sy[1], box[3] * sx[1], box[4] * sy[1],
    box[5] * sx[2], box[6] * sy[2]>>

Ratio(a, b) == <<a \div GCD(a, b), b \div GCD(a, b)>>

\* The mapping with InputSize used on both axes whatever the config.
toSourceSpace_SquareOnly(box, originalWidth, originalHeight, config) ==
  ScaleBox(box, Ratio(originalWidth, config.InputSize),
                Ratio(originalHeight, config.InputSize))

\* scaleX = originalWidth / InputWidth (or InputSize), scaleY likewise;
\* Box[0] *= scaleX, Box[1] *= scaleY, Box[2] *= scaleX, Box[3] *= scaleY
toSourceSpace(box, originalWidth, originalHeight, config) ==
  LET custom == config.InputWidth > 0 /\ config.InputHeight > 0
      inW == IF custom THEN config.InputWidth ELSE config.InputSize
      inH == IF custom THEN config.InputHeight ELSE config.InputSize
  IN ScaleBox(box, Ratio(originalWidth, inW), Ratio(originalHeight, inH))

\* detectImage from session.Run on: the set of (keep, err) it can return
detectImage(originalWidth, originalHeight, config, rc, runOk, outputData, outputShape) ==
  IF ~runOk THEN { [keep |-> <<>>, err |-> "inference failed"] }
  ELSE LET detections == parseDetections(outputData, outputShape, rc.ConfThreshold)
           scaled == [k \in 1..Len(detections) |->
                        [detections[k] EXCEPT !.Box =
                           toSourceSpace(@, originalWidth, originalHeight, config)]]
       IN { [keep |-> k, err |-> "nil"] :
              k \in nonMaxSuppression(scaled, rc.IOUThreshold) }

\* ------------------------------------------------------------ detectImage inputs
DetectSizes ==
  ((1..GeoMaxSrc) \X (1..GeoMaxSrc)) \cup { <<1280, 720>> }

DetectConfigs ==
  [InputWidth : 0..GeoMaxModel, InputHeight : 0..GeoMaxModel, InputSize : 1..GeoMaxModel]
    \cup { [InputWidth |-> 0, InputHeight |-> 0, InputSize |-> 640] }

DecFeatures == 4 + DecClasses

\* Class scores of one box: none, one class (below, at or above the default
\* threshold), two classes with the later higher, two classes level.
ScoreVectors ==
  LET zero == [c \in 0..(DecClasses - 1) |-> 0]
  IN { zero, [zero EXCEPT ![0] = 5, ![3] = 9], [zero EXCEPT ![1] = 9, ![3] = 9] }
       \cup { [zero EXCEPT ![c] = v] : c \in {0, 3}, v \in {3, DefaultConfThreshold, 9} }

\* Confidence thresholds a caller configures: keep everything, the default,
\* only the surest.
ConfThresholds == {0, DefaultConfThreshold, 9}

\* Boxes the model can report for an input of size r: the whole input, the
\* pixel at the origin and, in a 640x640 input, the box (100,100)-(200,200).
TensorBoxes(r) ==
  { [cx |-> r[1], cy |-> r[2], w |-> 2 * r[1], h |-> 2 * r[2]],
    [cx |-> 1, cy |-> 1, w |-> 2, h |-> 2] }
    \cup IF r = <<640, 640>> THEN { [cx |-> 300, cy |-> 300, w |-> 200, h |-> 200] }
                             ELSE {}

TensorEntries(r) ==
  { [box |-> b, scores |-> v] : b \in TensorBoxes(r), v \in ScoreVectors }

Feature(e, f) ==
  CASE f = 0 -> e.box.cx
    [] f = 1 -> e.box.cy
    [] f = 2 -> e.box.w
    [] f = 3 -> e.box.h
    [] OTHER -> e.scores[f - 4]

\* The flat data of a [1, DecFeatures, n] tensor holding the entries es.
TensorData(es) ==
  LET n == Len(es)
  IN [k \in 1..(DecFeatures * n) |-> Feature(es[((k - 1) % n) + 1], (k - 1) \div n)]

\* What session.Run can leave in the output tensor: well-formed tensors of up
\* to DecMaxBoxes boxes, a tensor without class rows, and the same data under
\* shapes of rank 2, of rank 4 and of batch 2.
Tensors(r) ==
  LET lists == UNION { [1..n -> TensorEntries(r)] : n \in 0..DecMaxBoxes }
      one == { es \in lists : Len(es) = 1 }
  IN { [shape |-> <<1, DecFeatures, Len(es)>>, data |-> TensorData(es)] : es \in lists }
       \cup { [shape |-> <<1, 4, 1>>, data |-> <<e.box.cx, e.box.cy, e.box.w, e.box.h>>] :
                e \in TensorEntries(r) }
       \cup { [shape |-> <<DecFeatures, 1>>, data |-> TensorData(es)] : es \in one }
       \cup { [shape |-> <<1, 1, DecFeatures, 1>>, data |-> TensorData(es)] : es \in one }
       \cup { [shape |-> <<2, DecFeatures, 1>>, data |-> TensorData(es) \o TensorData(es)] :
                es \in one }

InitDetect ==
  /\ InitVO
  /\ NmsIdle
  /\ HealthIdle
  /\ BatchIdle
  /\ \E sz \in DetectSizes : \E cfg \in DetectConfigs : \E ct \in ConfThresholds :
       detect = [pc |-> "call", originalWidth |-> sz[1], originalHeight |-> sz[2],
                 config |-> cfg,
                 rc |-> [DefaultDetectionOptions EXCEPT !.ConfThreshold = ct],
                 resized |-> <<0, 0>>, outputShape |-> <<>>, outputData |-> <<>>,
                 parsed |-> <<>>, keep |-> <<>>, err |-> "nil"]

\* y.runtimeConfig defaulted; inputData, err := y.preprocessImageFromMemory(img)
DetectPreprocess ==
  /\ detect.pc = "call"
  /\ detect' = [detect EXCEPT !.pc = "run", !.resized = preprocessSize(detect.config)]
  /\ UNCHANGED <<pipelineVars, nms, health, batch>>

\* session.Run, parseDetections, the scaling loop and nonMaxSuppression
DetectRun ==
  /\ detect.pc = "run"
  /\ \E t \in Tensors(detect.resized) : \E runOk \in BOOLEAN :
     \E r \in detectImage(detect.originalWidth, detect.originalHeight, detect.config,
                          detect.rc, runOk, t.data, t.shape) :
       detect' = [detect EXCEPT !.pc = "done", !.outputShape = t.shape,
                                !.outputData = t.data,
                                !.parsed = IF runOk
                                             THEN parseDetections(t.data, t.shape,
                                                                  detect.rc.ConfThreshold)
                                             ELSE <<>>,
                                !.keep = r.keep, !.err = r.err]
  /\ UNCHANGED <<pipelineVars, nms, health, batch>>

NextDetect ==
  \/ DetectPreprocess
  \/ DetectRun

SpecDetect == InitDetect /\ [][NextDetect]_vars

\* ------------------------------------------------------------ detectImage claims
Abs(x) == IF x < 0 THEN 0 - x ELSE x

\* The returned call decoded a well-formed tensor whose only box is e.
DecodedOne(e) ==
  /\ detect.pc = "done"
  /\ detect.err = "nil"
  /\ detect.outputShape = <<1, DecFeatures, 1>>
  /\ detect.outputData = TensorData(<<e>>)

\* The box covers the whole W x H frame.
Covers(box, W, H) ==
  /\ box[1] = 0
  /\ box[2] = 0
  /\ box[3] = W * box[5]
  /\ box[4] = H * box[6]

WholeInput(r) == [cx |-> r[1], cy |-> r[2], w |-> 2 * r[1], h |-> 2 * r[2]]

\* C14: when the model reports, above the confidence threshold, the box that
\* covers the whole preprocessed image, detectImage returns exactly that one
\* detection and its box covers the whole original image.
C14_RoundTrip ==
  \A v \in ScoreVectors :
    ( /\ DecodedOne([box |-> WholeInput(detect.resized), scores |-> v])
      /\ \E c \in DOMAIN v : v[c] >= detect.rc.ConfThreshold )
    => /\ Len(detect.keep) = 1
       /\ Covers(detect.keep[1].Box, detect.originalWidth, detect.originalHeight)

\* C14 witness: such a call with a non-square custom input size and an image
\* that differs from it on both axes.
C14_Witness ==
  /\ \E v \in ScoreVectors :
       DecodedOne([box |-> WholeInput(detect.resized), scores |-> v])
  /\ Len(detect.keep) = 1
  /\ detect.config.InputWidth > 0
  /\ detect.config.InputHeight > 0
  /\ detect.config.InputWidth # detect.config.InputHeight
  /\ detect.config.InputSize # detect.config.InputWidth
  /\ detect.originalWidth # detect.resized[1]
  /\ detect.originalHeight # detect.resized[2]

\* resizeWithPadding: scale = min(targetWidth/origWidth, targetHeight/origHeight),
\* as a fraction
letterboxScale(origWidth, origHeight, targetWidth, targetHeight) ==
  IF targetHeight * origWidth < targetWidth * origHeight
    THEN Ratio(targetHeight, origHeight)
    ELSE Ratio(targetWidth, origWidth)

\* resizeWithPadding: offsetX, offsetY of the image pasted at the centre
letterboxOffset(origWidth, origHeight, targetWidth, targetHeight) ==
  LET sc == letterboxScale(origWidth, origHeight, targetWidth, targetHeight)
      newWidth == (origWidth * sc[1]) \div sc[2]
      newHeight == (origHeight * sc[1]) \div sc[2]
  IN <<(targetWidth - newWidth) \div 2, (targetHeight - newHeight) \div 2>>

\* The coordinate num/den is within 1 pixel of (q/4 - offset) / scale, q being
\* the model-space coordinate in quarter pixels.
NearInverseLetterbox(num, den, q, offset, sc) ==
  Abs(num * 4 * sc[1] - (q - 4 * offset) * sc[2] * den) <= 4 * sc[1] * den

TestEntry ==
  [box |-> [cx |-> 300, cy |-> 300, w |-> 200, h |-> 200],
   scores |-> [c \in 0..(DecClasses - 1) |-> IF c = 3 THEN 9 ELSE 0]]

\* C15 (as claimed): for a 1280x720 frame, a 640x640 model and a tensor whose
\* only box is (100,100)-(200,200) with score 0.9 for class 3, detectImage
\* returns one detection of class 3 and score 0.9 whose box is within 1 pixel
\* of the inverse letterbox mapping of the model-space box.
C15_LetterboxedDecode ==
  ( /\ DecodedOne(TestEntry)
    /\ detect.originalWidth = 1280
    /\ detect.originalHeight = 720
    /\ detect.resized = <<640, 640>> )
  => /\ Len(detect.keep) = 1
     /\ detect.keep[1].ClassID = 3
     /\ detect.keep[1].Score = 9
     /\ LET b == detect.keep[1].Box
            sc == letterboxScale(1280, 720, 640, 640)
            off == letterboxOffset(1280, 720, 640, 640)
        IN /\ NearInverseLetterbox(b[1], b[5], 400, off[1], sc)
           /\ NearInverseLetterbox(b[2], b[6], 400, off[2], sc)
           /\ NearInverseLetterbox(b[3], b[5], 800, off[1], sc)
           /\ NearInverseLetterbox(b[4], b[6], 800, off[2], sc)

MalformedShape(outputShape) ==
  \/ Len(outputShape) # 3
  \/ outputShape[1] # 1

\* C17 (as claimed): when inference succeeded and the output shape is malformed,
\* decoding yields no detection and the error ErrUnsupportedOutputShape.
C17_ShapeError ==
  ( /\ detect.pc = "done"
    /\ detect.err # "inference failed"
    /\ MalformedShape(detect.outputShape) )
  => /\ detect.keep = <<>>
     /\ detect.err = "ErrUnsupportedOutputShape"

\* ============================================================ performHealthCheck
HealthMaxFailures == 5

\* cap(vo.asyncQueue) = maxBatchSize*2 = cpuCores*4*2
QueueCapacities == { 8 * cores : cores \in 1..HealthMaxCores }

\* healthy := state != Open && resourceCheck() && !(len > cap*8/10)
tickHealthy(cbState, rm, lv, qlen, qcap) ==
  /\ cbState # "Open"
  /\ resourceCheck(rm, lv)
  /\ ~(qlen > (qcap * 8) \div 10)

\* The flag cleared at the first unhealthy tick.
performHealthCheck_Eager(hc, healthy) ==
  IF healthy
    THEN [hc EXCEPT !.isHealthy = TRUE, !.failureCount = 0]
    ELSE [hc EXCEPT !.failureCount = @ + 1, !.isHealthy = FALSE]

\* if healthy { isHealthy = true; failureCount = 0 }
\* else { failureCount++; if failureCount >= maxFailures { isHealthy = false } }
performHealthCheck(hc, healthy) ==
  IF healthy
    THEN [hc EXCEPT !.isHealthy = TRUE, !.failureCount = 0]
    ELSE [hc EXCEPT !.failureCount = @ + 1,
                    !.isHealthy = IF hc.failureCount + 1 >= hc.maxFailures
                                    THEN FALSE ELSE @]

InitHealth ==
  /\ InitVO
  /\ NmsIdle
  /\ DetectIdle
  /\ BatchIdle
  /\ \E qcap \in QueueCapacities :
       health = [pc |-> "built", isHealthy |-> TRUE, failureCount |-> 0,
                 maxFailures |-> HealthMaxFailures, qcap |-> qcap,
                 cbState |-> "Closed", read |-> NoReading, qlen |-> 0,
                 healthy |-> TRUE, streak |-> 0, run |-> 0, recovered |-> FALSE]

\* Breaker not Open, resources within limits, queue below 80% of capacity.
HealthyAsSpecified(cbState, rm, lv, qlen, qcap) ==
  /\ cbState # "Open"
  /\ ~Exceeds(rm, lv)
  /\ qlen * 10 < qcap * 8

\* Breaker not Open, resources within limits, queue at most 80% of capacity.
HealthyAtMost(cbState, rm, lv, qlen, qcap) ==
  /\ cbState # "Open"
  /\ ~Exceeds(rm, lv)
  /\ qlen * 10 <= qcap * 8

\* case <-ticker.C: vo.performHealthCheck(), with what the tick reads.
\* History: streak counts the consecutive ticks with the breaker Open, the
\* resources exceeded or the queue at 80% or more; run counts those with the
\* queue above 80%; recovered tells that this tick set isHealthy back to true.
HealthTick ==
  /\ health.pc \in {"built", "ticked"}
  /\ health.failureCount < HealthMaxCount
  /\ health.streak < HealthMaxCount
  /\ \E cbState \in {"Closed", "Open"} : \E lv \in LiveReadings :
     \E qlen \in 0..health.qcap :
       LET healthy == tickHealthy(cbState, resourceMonitor, lv, qlen, health.qcap)
           hc == performHealthCheck(health, healthy)
       IN health' = [hc EXCEPT !.pc = "ticked", !.cbState = cbState, !.read = lv,
                               !.qlen = qlen, !.healthy = healthy,
                               !.streak = IF HealthyAsSpecified(cbState, resourceMonitor,
                                                                lv, qlen, health.qcap)
                                            THEN 0 ELSE @ + 1,
                               !.run = IF HealthyAtMost(cbState, resourceMonitor,
                                                        lv, qlen, health.qcap)
                                         THEN 0 ELSE @ + 1,
                               !.recovered = ~health.isHealthy /\ hc.isHealthy]
  /\ UNCHANGED <<pipelineVars, nms, detect, batch>>

NextHealth == HealthTick

SpecHealth == InitHealth /\ [][NextHealth]_vars

BatchMaxCores == 1
BatchMaxImages == 9

\* maxBatchSize as the constructor sets it: cores * 4, * 6 (GPU) or * 8 (CUDA).
BatchSizes == { cores * k : cores \in 1..BatchMaxCores, k \in {4, 6, 8} }

\* A nil [][]Detection: the slice of length 0.
NilResults == << >>

NoBatchReturn == [results |-> NilResults, err |-> 0]

\* Number of goroutines the spawn loop starts: ceil(n / batchSize).
batchGoroutines(n, batchSize) == (n + batchSize - 1) \div batchSize

\* First index (1-based) of goroutine g's range.
batchStart(g, batchSize) == (g - 1) * batchSize + 1

\* One past the last index of goroutine g's range.
batchEnd(g, n, batchSize) ==
  IF g * batchSize > n THEN n + 1 ELSE g * batchSize + 1

\* Variant of the final return that hands back the result slice even when
\* an error was recorded.
batchReturn_Partial(results, firstError) ==
  [results |-> results, err |-> firstError]

\* The return after wg.Wait: (nil, firstError) when an error was recorded,
\* (results, nil) otherwise.
batchReturn(results, firstError) ==
  IF firstError # 0
    THEN [results |-> NilResults, err |-> firstError]
    ELSE [results |-> results, err |-> 0]

InitBatch ==
  /\ InitVO
  /\ NmsIdle
  /\ DetectIdle
  /\ HealthIdle
  /\ \E n \in 0..BatchMaxImages, mbs \in BatchSizes, cuda \in BOOLEAN :
       batch = [pc |-> "called", n |-> n, maxBatchSize |-> mbs, cuda |-> cuda,
                batchSize |-> 0, i |-> 0, next |-> << >>, live |-> << >>,
                results |-> NilResults, firstError |-> 0, ret |-> NoBatchReturn]

\* len(images) == 0: return nil, nil.
BatchEmpty ==
  /\ batch.pc = "called"
  /\ batch.n = 0
  /\ batch' = [batch EXCEPT !.pc = "returned",
                            !.ret = [results |-> NilResults, err |-> 0]]
  /\ UNCHANGED <<pipelineVars, nms, detect, health>>

\* The goroutine spawn loop of the CPU path.
batchSpawn(b) ==
  LET batchSize == IF b.n < b.maxBatchSize THEN b.n ELSE b.maxBatchSize
      g == batchGoroutines(b.n, batchSize)
  IN [b EXCEPT !.pc = "running",
               !.batchSize = batchSize,
               !.results = [j \in 1..b.n |-> "unset"],
               !.next = [k \in 1..g |-> batchStart(k, batchSize)],
               !.live = [k \in 1..g |-> TRUE]]

\* CUDA not enabled: straight to the CPU path.
BatchSpawn ==
  /\ batch.pc = "called"
  /\ batch.n > 0
  /\ ~batch.cuda
  /\ batch' = batchSpawn(batch)
  /\ UNCHANGED <<pipelineVars, nms, detect, health>>

\* CUDA enabled: batch preprocessing either succeeds (sequential detection
\* follows) or fails (fall back to the CPU path).
BatchCudaPreprocess ==
  /\ batch.pc = "called"
  /\ batch.n > 0
  /\ batch.cuda
  /\ \E ok \in BOOLEAN :
       batch' = IF ok
                  THEN [batch EXCEPT !.pc = "cuda", !.i = 1,
                                     !.results = [j \in 1..batch.n |-> "unset"]]
                  ELSE batchSpawn(batch)
  /\ UNCHANGED <<pipelineVars, nms, detect, health>>

\* One iteration of the sequential CUDA detection loop; the iteration that
\* fails returns (nil, err), the last successful one returns (results, nil).
BatchCudaDetect ==
  /\ batch.pc = "cuda"
  /\ \E ok \in BOOLEAN :
       LET filled == [batch.results EXCEPT ![batch.i] = "set"] IN
       batch' = IF ~ok
                  THEN [batch EXCEPT !.pc = "returned",
                                     !.ret = [results |-> NilResults, err |-> batch.i]]
                  ELSE IF batch.i = batch.n
                    THEN [batch EXCEPT !.pc = "returned", !.results = filled,
                                       !.ret = [results |-> filled, err |-> 0]]
                    ELSE [batch EXCEPT !.results = filled, !.i = batch.i + 1]
  /\ UNCHANGED <<pipelineVars, nms, detect, health>>

\* One iteration of goroutine g's loop: OptimizedDetectImage on image j
\* succeeds (results[j] written under the mutex) or fails (errorOnce keeps
\* the first error, the goroutine returns).
BatchStep(g) ==
  /\ batch.pc = "running"
  /\ g \in DOMAIN batch.live
  /\ batch.live[g]
  /\ \E ok \in BOOLEAN :
       LET j == batch.next[g] IN
       batch' = IF ok
                  THEN [batch EXCEPT
                          !.results[j] = "set",
                          !.next[g] = j + 1,
                          !.live[g] = j + 1 < batchEnd(g, batch.n, batch.batchSize)]
                  ELSE [batch EXCEPT
                          !.firstError = IF batch.firstError = 0 THEN j
                                         ELSE batch.firstError,
                          !.live[g] = FALSE]
  /\ UNCHANGED <<pipelineVars, nms, detect, health>>

\* wg.Wait returned: every goroutine is done.
BatchReturn ==
  /\ batch.pc = "running"
  /\ \A g \in DOMAIN batch.live : ~batch.live[g]
  /\ batch' = [batch EXCEPT !.pc = "returned",
                            !.ret = batchReturn(batch.results, batch.firstError)]
  /\ UNCHANGED <<pipelineVars, nms, detect, health>>

NextBatch ==
  \/ BatchEmpty
  \/ BatchSpawn
  \/ BatchCudaPreprocess
  \/ BatchCudaDetect
  \/ \E g \in 1..BatchMaxImages : BatchStep(g)
  \/ BatchReturn

SpecBatch == InitBatch /\ [][NextBatch]_vars

\* The returned list has one filled entry per input image (for an empty
\* input the list is the nil, zero-length one).
BatchAllFilled(ret, n) ==
  /\ Len(ret.results) = n
  /\ \A j \in 1..n : ret.results[j] = "set"

\* C18: BatchDetectImages returns either a result list with one filled
\* entry per input image and a nil error, or a nil result list and a
\* non-nil error, whatever the interleaving of its goroutines.
C18_BatchUniform ==
  batch.pc = "returned" =>
    \/ batch.ret.err = 0 /\ BatchAllFilled(batch.ret, batch.n)
    \/ batch.ret.err # 0 /\ batch.ret.results = NilResults

\* A parallel call that returned an error after some goroutine had already
\* stored results, and after a second goroutine had failed too.
C18_Witness ==
  /\ batch.pc = "returned"
  /\ batch.ret.err # 0
  /\ batch.ret.results = NilResults
  /\ Len(batch.live) > 1
  /\ \E j \in 1..batch.n : batch.results[j] = "set"
  /\ \E j \in 1..batch.n : batch.results[j] = "unset" /\ j < batch.ret.err

\* ---------------------------------------------------------------------
\* Metrics and failureCount across the pipeline with resets (SpecReset).
\* ---------------------------------------------------------------------

\* A step in which a task's processing completes: a pooled worker's
\* extremePreprocessImage returns, or the inline fallback's does.
WorkerCompletes(w) == wpc[w] = "proc" /\ wpc'[w] = "record"

InlineCompletes == spc = "inline" /\ spc' = "inlineSend"

\* totalRequests grew by one together with exactly one of
\* successRequests / failedRequests.
CountedOnce ==
  /\ metrics'.totalRequests = metrics.totalRequests + 1
  /\ \/ /\ metrics'.successRequests = metrics.successRequests + 1
        /\ metrics'.failedRequests = metrics.failedRequests
     \/ /\ metrics'.successRequests = metrics.successRequests
        /\ metrics'.failedRequests = metrics.failedRequests + 1

\* The three counters back at zero.
MetricsZeroed ==
  metrics' = [totalRequests |-> 0, successRequests |-> 0, failedRequests |-> 0]

\* C19: every task completion, by a pooled worker or by the inline
\* queue-full fallback, increments totalRequests by one together with
\* exactly one of successRequests / failedRequests, and the counters change
\* otherwise only by being zeroed together with the breaker being closed
\* (ResetStabilityMetrics).
C19_MetricsCoverCompleted ==
  [][ /\ (InlineCompletes \/ \E w \in Workers : WorkerCompletes(w)) => CountedOnce
      /\ (metrics' # metrics /\ ~CountedOnce) =>
            (MetricsZeroed /\ circuitBreaker'.state = "Closed") ]_vars

\* A step that lowers the breaker's failureCount.
FailureCountDecreases ==
  circuitBreaker'.failureCount < circuitBreaker.failureCount

\* A worker's circuitBreakerRecord call closing a half-open breaker.
TrialCloses ==
  /\ circuitBreaker.state = "HalfOpen"
  /\ circuitBreaker'.state = "Closed"
  /\ \E w \in Workers : RecordStep(w) /\ werr[w] = "nil"

\* A ResetStabilityMetrics call: breaker closed and the counters zeroed.
ResetCloses == circuitBreaker'.state = "Closed" /\ MetricsZeroed

\* C20: failureCount decreases only to 0 and only in a step that puts the
\* breaker into Closed, a successful half-open trial or a
\* ResetStabilityMetrics call; SetCircuitBreakerSettings, admission checks
\* and every other step leave it at least as large as it was.
C20_FailureCountReset ==
  [][ FailureCountDecreases =>
        /\ circuitBreaker'.failureCount = 0
        /\ circuitBreaker'.state = "Closed"
        /\ (TrialCloses \/ ResetCloses) ]_vars

\* A worker has recorded a failure (it is past circuitBreakerRecord with an
\* error in hand) and a later reset has put failureCount back to 0.
C20_Witness ==
  /\ \E w \in Workers : wpc[w] \in {"release", "send"} /\ werr[w] # "nil"
  /\ circuitBreaker.failureCount = 0
  /\ circuitBreaker.state = "Closed"
  /\ metrics.totalRequests = 0

\* ---------------------------------------------------------------------
\* Gates, permits and shutdown in the running pipeline.
\* ---------------------------------------------------------------------

\* The circuit breaker and the rate limiter would both admit a frame now.
GatesAdmit ==
  /\ circuitBreakerAllow(circuitBreaker, now)
  /\ rateLimiterAllow(rateLimiter, now).ok

\* C21: no frame is preprocessed, by a pooled worker or by the inline
\* queue-full fallback, while a gate would reject it: the step in which
\* the inline fallback preprocesses a frame is taken only when the circuit
\* breaker and the rate limiter admit.
C21_GatedBeforeProcessing ==
  [][ InlineCompletes => GatesAdmit ]_vars

\* Workers between <-vo.workerPool and vo.workerPool <- struct{}{}.
PermitHolders == { w \in Workers : wpc[w] \in {"proc", "record", "release"} }

\* Workers inside extremePreprocessImage.
Preprocessing == { w \in Workers : wpc[w] = "proc" }

\* Worker w takes a permit in this step / returns one in this step.
AcquireStep(w) == wpc[w] = "acquire" /\ wpc'[w] = "proc"

ReleaseStep(w) == wpc[w] = "release" /\ wpc'[w] = "send"

\* C22: before Close, permits in the pool plus workers holding one equal
\* parallelism; the pool changes only by a worker's acquire (after all
\* three gates) and by the matching release, which always finds room; at
\* most parallelism workers are preprocessing at once.
C22_PermitConservation ==
  /\ [](/\ workerPool + Cardinality(PermitHolders) = NumWorkers
        /\ \A w \in Workers : wpc[w] = "release" => workerPool < NumWorkers
        /\ Cardinality(Preprocessing) <= NumWorkers)
  /\ [][ /\ workerPool' < workerPool =>
               \E w \in Workers : AcquireStep(w) /\ workerPool' = workerPool - 1
         /\ workerPool' > workerPool =>
               \E w \in Workers : ReleaseStep(w) /\ workerPool' = workerPool + 1
         /\ \A w \in Workers :
               wpc'[w] = "rejSend" /\ wpc[w] # "rejSend" => workerPool' = workerPool
       ]_vars

\* One worker holds a permit and is preprocessing while the other has had
\* its task rejected at a gate, and a third task has already gone through
\* acquire and release.
C22_Witness ==
  /\ \E w \in Workers : wpc[w] = "proc"
  /\ \E w \in Workers : wpc[w] = "rejSend"
  /\ workerPool = NumWorkers - 1
  /\ metrics.totalRequests >= 1

\* C23: once Close has set the shutdown flag, a worker that comes to its
\* shutdown check with a task leaves without preprocessing it, while a
\* worker already preprocessing goes on to return its permit (as long as
\* the process itself is alive).
C23_ShutdownStopsNewWork ==
  /\ [][ \A w \in Workers :
           isShutdown /\ wpc[w] = "shutdownChk" =>
             wpc'[w] \in {"shutdownChk", "exited"} ]_vars
  /\ \A w \in Workers :
       (ctxDone /\ wpc[w] = "proc") ~> (wpc[w] = "send" \/ panicked)

\* After the cancellation one worker has left at its shutdown check with
\* the task it had dequeued, and another has finished the task it was
\* preprocessing and returned its permit.
C23_Witness ==
  /\ ctxDone
  /\ \E w \in Workers : wpc[w] = "exited" /\ wtask[w] # 0
  /\ \E w \in Workers : wpc[w] = "send" /\ wtask[w] # 0

\* C24: when Close returns, the pending queue has been drained, all
\* parallelism worker permits have been taken back and both channels are
\* closed.
C24_CloseReturnsDrained ==
  cpc = "done" =>
    /\ asyncQueue = << >>
    /\ ci = NumWorkers
    /\ asyncClosed
    /\ doneClosed

\* A step in which a goroutine sends on a channel that has been closed
\* (the send panics).
SendPanics == ~panicked /\ panicked'

\* The sender is a worker delivering a result / the AsyncDetectImage caller.
WorkerSendsOnClosed ==
  /\ SendPanics
  /\ doneClosed
  /\ \E w \in Workers : wpc[w] \in {"send", "rejSend"}
  /\ spc # "inlineSend"

CallerSendsOnClosed ==
  /\ SendPanics
  /\ \/ spc = "idle" /\ asyncClosed
     \/ spc = "inlineSend" /\ doneClosed

\* C25: in no interleaving of Close with the workers and with
\* AsyncDetectImage callers does a goroutine send on the pending-task
\* channel or the result channel after that channel was closed.
C25_NoSendOnClosed ==
  [][ ~WorkerSendsOnClosed /\ ~CallerSendsOnClosed ]_vars

\* ---------------------------------------------------------------------
\* parseDetections against the decoding rule.
\* ---------------------------------------------------------------------

\* The call decoded a tensor of shape [1, 4+numClasses, numBoxes].
DecodedWellFormed ==
  /\ detect.pc = "done"
  /\ detect.err = "nil"
  /\ Len(detect.outputShape) = 3
  /\ detect.outputShape[1] = 1
  /\ detect.outputShape[2] > 4

\* Score of class c for box i in the tensor of the call (tenths); feature f
\* of box i (half pixels, so that a corner num/den in pixels satisfies
\* 4 * num = (2*cx -+ w) * den).
ClassScore(i, c) == TensorAt(detect.outputData, detect.outputShape[3], 4 + c, i)

BoxFeature(i, f) == TensorAt(detect.outputData, detect.outputShape[3], f, i)

ClassIds == 0..(detect.outputShape[2] - 5)

\* The maximum class score of box i and the lowest class index that has it.
MaxScore(i) ==
  CHOOSE v \in { ClassScore(i, c) : c \in ClassIds } :
    \A c \in ClassIds : ClassScore(i, c) <= v

ArgMax(i) ==
  CHOOSE c \in ClassIds :
    /\ ClassScore(i, c) = MaxScore(i)
    /\ \A c2 \in ClassIds : c2 < c => ClassScore(i, c2) < MaxScore(i)

\* Boxes whose maximum class score is at least the configured threshold.
Selected ==
  { i \in 0..(detect.outputShape[3] - 1) : MaxScore(i) >= detect.rc.ConfThreshold }

\* The k-th selected box, in box-index order.
SelectedAt(k) ==
  CHOOSE i \in Selected : Cardinality({ j \in Selected : j < i }) = k - 1

CheckStep == Len(rlLog') = Len(rlLog) + 1

\* C27: under every sequence of rateLimiterAllow checks at non-decreasing
\* times and SetRateLimitSettings calls with maxTokens >= 0 and
\* refillRate >= 0, 0 <= tokens <= maxTokens; a check is admitted exactly
\* when at least one token is available after the refill step, and an
\* admission takes exactly one token.
C27_TokenBounds ==
  /\ [](0 <= rateLimiter.tokens /\ rateLimiter.tokens <= rateLimiter.maxTokens)
  /\ [][ CheckStep =>
           LET refilled == rateLimiterRefill(rateLimiter, now)
               admitted == rlLog'[Len(rlLog')].ok
           IN /\ admitted <=> refilled.tokens >= 1
              /\ rateLimiter'.tokens = refilled.tokens - (IF admitted THEN 1 ELSE 0)
       ]_vars

\* ---------------------------------------------------------------------
\* Breaker state against its counter, maxFailures fixed.
\* ---------------------------------------------------------------------

\* C28: with maxFailures fixed at a value >= 1, a Closed breaker has
\* failureCount < maxFailures and an Open breaker has
\* failureCount >= maxFailures, under every interleaving of the workers'
\* outcome records and ResetStabilityMetrics calls.
C28_StateCounterConsistent ==
  /\ circuitBreaker.maxFailures >= 1
  /\ circuitBreaker.state = "Closed" =>
       circuitBreaker.failureCount < circuitBreaker.maxFailures
  /\ circuitBreaker.state = "Open" =>
       circuitBreaker.failureCount >= circuitBreaker.maxFailures

\* A ResetStabilityMetrics call has fallen between a worker's metrics
\* update and its outcome record: the metrics no longer show the failure,
\* and the record has just brought failureCount to maxFailures and opened
\* the breaker.
C28_Witness ==
  /\ circuitBreaker.state = "Open"
  /\ circuitBreaker.failureCount = circuitBreaker.maxFailures
  /\ metrics.failedRequests < circuitBreaker.failureCount
  /\ \E w \in Workers : wpc[w] = "release" /\ werr[w] # "nil"

\* ---------------------------------------------------------------------
\* Gate rejections and the outcome state.
\* ---------------------------------------------------------------------

GatePositions == {"cb", "rl", "res", "rejSend"}

\* Worker w takes a gate check, or delivers a gate rejection, in this step.
GateStep(w) == wpc[w] \in GatePositions /\ wpc'[w] # wpc[w]

BreakerOutcome == <<circuitBreaker.state, circuitBreaker.failureCount>>

\* C29: a worker's steps at the circuit-breaker, rate-limiter and resource
\* gates, the rejection and its delivery included, leave the breaker's
\* state and failureCount, every metrics counter and the number of
\* available permits unchanged, and a rejected task goes back to the
\* receive without being processed; the metrics change only in the step
\* in which a worker finishes processing a task, and the breaker's state
\* and failureCount only in the step in which a worker records the
\* outcome of a processed task.
C29_RejectionFrame ==
  [][ /\ \A w \in Workers :
           /\ GateStep(w) =>
                UNCHANGED <<BreakerOutcome, metrics, workerPool>>
           /\ wpc[w] = "rejSend" => wpc'[w] \in {"rejSend", "select"}
      /\ metrics' # metrics => \E w \in Workers : WorkerCompletes(w)
      /\ BreakerOutcome' # BreakerOutcome => \E w \in Workers : RecordStep(w)
    ]_vars

\* A worker has just rejected a task at the breaker gate; the breaker is
\* Open on the failures of the tasks processed before, every one of them
\* in the metrics, and all permits are available.
C29_Witness ==
  /\ \E w \in Workers : wpc[w] = "rejSend" /\ werr[w] = "circuit breaker open"
  /\ circuitBreaker.state = "Open"
  /\ circuitBreaker.failureCount >= 1
  /\ metrics.failedRequests = circuitBreaker.failureCount
  /\ metrics.totalRequests = metrics.failedRequests
  /\ workerPool = NumWorkers

\* ---------------------------------------------------------------------
\* Successes and the failure count of a Closed breaker.
\* ---------------------------------------------------------------------

\* Worker w records a success, or a failure, in this step.
SuccessRecord(w) == RecordStep(w) /\ werr[w] = "nil"
FailureRecord(w) == RecordStep(w) /\ werr[w] # "nil"

\* C30: a success recorded while the breaker is Closed leaves state and
\* failureCount unchanged; every recorded failure adds exactly one to
\* failureCount and leaves the breaker Open exactly when the new count has
\* reached maxFailures (or the breaker was Open already); failureCount
\* changes in no other way than such an increment or a reset to 0.  So
\* failureCount is the number of failures recorded since the last reset to
\* 0, whatever successes came between them, and with maxFailures fixed a
\* breaker whose count has reached maxFailures is never Closed.
C30_SuccessKeepsCount ==
  /\ [](circuitBreaker.failureCount >= circuitBreaker.maxFailures =>
          circuitBreaker.state = "Open")
  /\ [][ /\ \A w \in Workers :
              /\ SuccessRecord(w) /\ circuitBreaker.state = "Closed" =>
                   UNCHANGED <<circuitBreaker.state, circuitBreaker.failureCount>>
              /\ FailureRecord(w) =>
                   /\ circuitBreaker'.failureCount = circuitBreaker.failureCount + 1
                   /\ circuitBreaker'.state =
                        IF circuitBreaker'.failureCount >= circuitBreaker.maxFailures
                          THEN "Open" ELSE circuitBreaker.state
         /\ circuitBreaker'.failureCount # circuitBreaker.failureCount =>
              \/ circuitBreaker'.failureCount = 0
              \/ \E v \in Workers : FailureRecord(v)
       ]_vars

\* The breaker has opened on its second failure with maxFailures = 2: of
\* the three tasks processed since the metrics were last zeroed the second
\* succeeded and its result has been delivered, the first failed, and the
\* worker that has just recorded the failure of the third is about to
\* return its permit.
C30_Witness ==
  /\ circuitBreaker.maxFailures = 2
  /\ circuitBreaker.state = "Open"
  /\ circuitBreaker.failureCount = 2
  /\ metrics.successRequests = 1
  /\ metrics.failedRequests = 2
  /\ \E w \in Workers :
       /\ wpc[w] = "release" /\ werr[w] # "nil" /\ wtask[w] = 3
       /\ \A v \in Workers \ {w} : wpc[v] = "select"
  /\ processDone = << [id |-> 2, err |-> "nil"] >>


====
